---- MODULE Spec2Model ----
(***************************************************************************)
(* UUID version 7 value type (include/uuidv7/uuidv7.hpp) and the           *)
(* monotonic generator (src/generator.cpp, include/uuidv7/generator.hpp).  *)
(*                                                                         *)
(* A uuidv7 is its data_ array: a function from 0..15 to bytes 0..255.     *)
(* 64-bit quantities (the clock's millisecond count) are kept as their     *)
(* eight base-256 digits, most significant first, because the 48-bit and   *)
(* 62-bit fields do not fit the model checker's integers.                  *)
(***************************************************************************)
EXTENDS Integers, Sequences, FiniteSets, TLC

VARIABLES
    last_generated_,  \* uuidv7_generator::last_generated_.data_
    mutex_,           \* uuidv7_generator::mutex_: its owner, or NoThread
    pc,               \* per thread: position inside generate()
    millis_bytes,     \* per thread: the local millis_bytes of generate()
    rand,             \* per thread: the local rand of generate()
    entry,            \* per thread: last_generated_ when the lock was taken, the ticket, the clock reading, the generate_random() calls
    acquired,         \* number of lock acquisitions so far
    calls,            \* number of generate() calls started so far
    log,              \* completed calls, in order of completion
    op,               \* value-type API: the last operation applied
    arg,              \* value-type API: its input
    res               \* value-type API: its outcome

vars == <<last_generated_, mutex_, pc, millis_bytes, rand, entry, acquired, calls, log, op, arg, res>>

----------------------------------------------------------------------------
(* Bounds of the model *)

MaxCalls == 4
NumThreads == 2

Threads == 1..NumThreads
NoThread == 0

----------------------------------------------------------------------------
(* Program constants *)

VERSION == 7
VARIANT == 2

\* A 16-byte std::array written as a tuple, re-indexed from 0 as in the source.
Arr(t) == [i \in 0..(Len(t) - 1) |-> t[i + 1]]

----------------------------------------------------------------------------
(* uuidv7 value type *)

\* uuidv7(0, 0, 0): timestamp, rand_a and rand_b zero, version and variant set.
Uuidv7Zero ==
    [i \in 0..15 |-> IF i = 6 THEN (0 % 16) + VERSION * 16
                     ELSE IF i = 8 THEN (0 % 64) + VARIANT * 64
                     ELSE 0]

\* operator< on std::array<uint8_t,16>: lexicographic, byte 0 first.
RECURSIVE LessFrom(_, _, _)
LessFrom(a, b, i) ==
    IF i > 15 THEN FALSE
    ELSE IF a[i] < b[i] THEN TRUE
    ELSE IF a[i] > b[i] THEN FALSE
    ELSE LessFrom(a, b, i + 1)

Less(a, b) == LessFrom(a, b, 0)

\* from_bytes(std::array) without lines 237-238: the variant bits are not checked.
from_bytes_no_variant(bytes) ==
    IF ((bytes[6] \div 16) % 16) # VERSION
        THEN [kind |-> "invalid_format", data |-> <<>>]
    ELSE [kind |-> "value", data |-> bytes]

\* from_bytes(std::array): only the version nibble and the variant bits are checked.
from_bytes(bytes) ==
    IF ((bytes[6] \div 16) % 16) # VERSION
        THEN [kind |-> "invalid_format", data |-> <<>>]
    ELSE IF ((bytes[8] \div 64) % 4) # VARIANT
        THEN [kind |-> "invalid_format", data |-> <<>>]
    ELSE [kind |-> "value", data |-> bytes]

----------------------------------------------------------------------------
(* uuidv7_generator::generate, piece by piece *)

\* Lines 11-17: the low six base-256 digits of the 64-bit millisecond count.
\* millis is given as its eight digits, most significant first (1..8).
RECURSIVE MillisLoop(_, _, _)
MillisLoop(millis, mb, i) ==
    IF i < 0 THEN mb
    ELSE MillisLoop(SubSeq(millis, 1, Len(millis) - 1),
                    [mb EXCEPT ![i] = millis[Len(millis)]],
                    i - 1)

\* Lines 11-17 keeping the six most significant digits of the count in
\* place of the six least significant.
MillisBytesHigh(millis) == [i \in 0..5 |-> millis[i + 1]]

\* Lines 11-17: millis_bytes, filled from index 5 down to 0.
MillisBytes(millis) == MillisLoop(millis, [i \in 0..5 |-> 0], 5)

\* std::memcmp(a, b, 6): sign of the first differing byte among bytes 0..5.
RECURSIVE MemcmpFrom(_, _, _, _)
MemcmpFrom(a, b, i, n) ==
    IF i >= n THEN 0
    ELSE IF a[i] < b[i] THEN -1
    ELSE IF a[i] > b[i] THEN 1
    ELSE MemcmpFrom(a, b, i + 1, n)

Memcmp6(a, b) == MemcmpFrom(a, b, 0, 6)

\* Line 19 with != 0 in place of < 0: a clock behind the stored timestamp
\* takes the time-advanced branch too.
TimeAdvancedNe(last, mb) == Memcmp6(last, mb) # 0

\* Line 19 with <= in place of <: an equal millisecond redraws the tail.
TimeAdvancedLe(last, mb) == Memcmp6(last, mb) <= 0

\* Line 19: the time-advanced branch is taken when the stored timestamp is
\* strictly below the clock's.
TimeAdvanced(last, mb) == Memcmp6(last, mb) < 0

\* Lines 21-23 without line 21: the timestamp bytes are left as they were.
StoreCopyKeepTimestamp(last, mb, rnd) ==
    [i \in 0..15 |-> IF i < 6 THEN last[i]
                     ELSE IF i < 8 THEN rnd[i - 6]
                     ELSE rnd[i - 8 + 2]]

\* Lines 21-23: the three memcpy calls.
StoreCopy(last, mb, rnd) ==
    [i \in 0..15 |-> IF i < 6 THEN mb[i]
                     ELSE IF i < 8 THEN rnd[i - 6]
                     ELSE rnd[i - 8 + 2]]

\* Lines 25-26 with the shifts left out: the low bits of bytes 6 and 8 are
\* kept in place of the high bits moved down.
StoreMaskLowBits(data) ==
    [data EXCEPT ![6] = (data[6] % 16) + VERSION * 16,
                 ![8] = (data[8] % 64) + VARIANT * 64]

\* Lines 25-26: shift the random bits down and set version and variant.
StoreMask(data) ==
    [data EXCEPT ![6] = ((data[6] \div 16) % 16) + VERSION * 16,
                 ![8] = ((data[8] \div 4) % 64) + VARIANT * 64]

\* Lines 29-38: the carrying counter over bytes 15 down to 9.
\* Yields the array and the final value of target (0 after an increment,
\* 8 when all seven bytes wrapped).
RECURSIVE IncLowLoop(_, _)
IncLowLoop(data, target) ==
    IF target > 8
    THEN IF data[target] < 255
         THEN [data |-> [data EXCEPT ![target] = data[target] + 1], target |-> 0]
         ELSE IncLowLoop([data EXCEPT ![target] = 0], target - 1)
    ELSE [data |-> data, target |-> target]

\* Lines 29-38 without line 35: a byte at 0xFF is stepped over, not zeroed.
RECURSIVE IncLowLoopNoReset(_, _)
IncLowLoopNoReset(data, target) ==
    IF target > 8
    THEN IF data[target] < 255
         THEN [data |-> [data EXCEPT ![target] = data[target] + 1], target |-> 0]
         ELSE IncLowLoopNoReset(data, target - 1)
    ELSE [data |-> data, target |-> target]

IncLowNoReset(data) == IncLowLoopNoReset(data, 15)

\* Lines 28-38: target = 15, then the loop.
IncLow(data) == IncLowLoop(data, 15)

\* Lines 41-60 with the throw of line 58 replaced by a carry into the
\* timestamp: rand_a wraps to zero and byte 5 is incremented.
IncHighBumpTimestamp(data) ==
    IF (data[8] % 64) < 63
    THEN [data |-> [data EXCEPT ![8] = (data[8] + 1) % 256], thrown |-> FALSE]
    ELSE LET d8 == [data EXCEPT ![8] = 0 + VARIANT * 64] IN
         IF d8[7] < 255
         THEN [data |-> [d8 EXCEPT ![7] = d8[7] + 1], thrown |-> FALSE]
         ELSE LET d7 == [d8 EXCEPT ![7] = 0] IN
              IF (d7[6] % 16) < 15
              THEN [data |-> [d7 EXCEPT ![6] = (d7[6] + 1) % 256], thrown |-> FALSE]
              ELSE [data |-> [d7 EXCEPT ![6] = 0 + VERSION * 16, ![5] = (d7[5] + 1) % 256],
                    thrown |-> FALSE]

\* Lines 41-60 without the test of line 54: the throw of line 58 is reached
\* whenever byte 7 wraps.
IncHighEarlyThrow(data) ==
    IF (data[8] % 64) < 63
    THEN [data |-> [data EXCEPT ![8] = (data[8] + 1) % 256], thrown |-> FALSE]
    ELSE LET d8 == [data EXCEPT ![8] = 0 + VARIANT * 64] IN
         IF d8[7] < 255
         THEN [data |-> [d8 EXCEPT ![7] = d8[7] + 1], thrown |-> FALSE]
         ELSE [data |-> [d8 EXCEPT ![7] = 0], thrown |-> TRUE]

\* Lines 41-60 with byte 8 tested whole instead of masked with 0x3F: the
\* carry runs into the variant bits.
IncHighNoMask(data) ==
    IF data[8] < 255
    THEN [data |-> [data EXCEPT ![8] = (data[8] + 1) % 256], thrown |-> FALSE]
    ELSE LET d8 == [data EXCEPT ![8] = 0 + VARIANT * 64] IN
         IF d8[7] < 255
         THEN [data |-> [d8 EXCEPT ![7] = d8[7] + 1], thrown |-> FALSE]
         ELSE LET d7 == [d8 EXCEPT ![7] = 0] IN
              IF (d7[6] % 16) < 15
              THEN [data |-> [d7 EXCEPT ![6] = (d7[6] + 1) % 256], thrown |-> FALSE]
              ELSE [data |-> d7, thrown |-> TRUE]

\* Lines 41-60 without the test of line 54 and the throw of line 58: byte 6
\* is incremented whatever its low nibble.
IncHighWrap(data) ==
    IF (data[8] % 64) < 63
    THEN [data |-> [data EXCEPT ![8] = (data[8] + 1) % 256], thrown |-> FALSE]
    ELSE LET d8 == [data EXCEPT ![8] = 0 + VARIANT * 64] IN
         IF d8[7] < 255
         THEN [data |-> [d8 EXCEPT ![7] = d8[7] + 1], thrown |-> FALSE]
         ELSE LET d7 == [d8 EXCEPT ![7] = 0] IN
              [data |-> [d7 EXCEPT ![6] = (d7[6] + 1) % 256], thrown |-> FALSE]

\* Lines 41-60: carry into byte 8's low 6 bits, byte 7, byte 6's low nibble.
\* The writes made before the throw at line 58 stay in the array.
IncHigh(data) ==
    IF (data[8] % 64) < 63
    THEN [data |-> [data EXCEPT ![8] = (data[8] + 1) % 256], thrown |-> FALSE]
    ELSE LET d8 == [data EXCEPT ![8] = 0 + VARIANT * 64] IN
         IF d8[7] < 255
         THEN [data |-> [d8 EXCEPT ![7] = d8[7] + 1], thrown |-> FALSE]
         ELSE LET d7 == [d8 EXCEPT ![7] = 0] IN
              IF (d7[6] % 16) < 15
              THEN [data |-> [d7 EXCEPT ![6] = (d7[6] + 1) % 256], thrown |-> FALSE]
              ELSE [data |-> d7, thrown |-> TRUE]

----------------------------------------------------------------------------
(* Inputs the environment supplies *)

\* system_clock readings: the 64-bit millisecond count as eight base-256
\* digits.  256 ms, 2^48 ms, whose low 48 bits are zero, and 2^48 + 257 ms,
\* whose low 48 bits are 257.
ClockPool ==
    { <<0, 0, 0, 0, 0, 0, 1, 0>>,
      <<0, 1, 0, 0, 0, 0, 0, 0>>,
      <<0, 1, 0, 0, 0, 0, 1, 1>> }

\* Buffers generate_random() may return.
RandPool ==
    { Arr(<<0, 0, 0, 0, 0, 0, 0, 0, 0, 0>>),
      Arr(<<\hFF, \hFF, \hFF, \hFF, \hFF, \hFF, \hFF, \hFF, \hFF, \hFF>>),
      Arr(<<\hAB, \hCD, \hE6, \h01, \h23, \h45, \h67, \h89, \h9A, \hBC>>) }

\* Byte arrays offered to from_bytes to build the generator's seed: the two
\* arrays of the test file (timestamp in 2112), tails at each carry boundary
\* with timestamp 256 ms, and one array from_bytes rejects.
SeedBytes ==
    { Arr(<<\h04, \h18, \h46, \hE8, \h1C, \h98, \h70, \h00,
            \h80, \h00, \h00, \h00, \h00, \h00, \h00, \h00>>),
      Arr(<<\h04, \h18, \h46, \hE8, \h1C, \h98, \h7F, \hFF,
            \hBF, \hFF, \hFF, \hFF, \hFF, \hFF, \hFF, \hFF>>),
      Arr(<<0, 0, 0, 0, 1, 0, \h70, \h00,
            \h80, \hFF, \hFF, \hFF, \hFF, \hFF, \hFF, \hFF>>),
      Arr(<<0, 0, 0, 0, 1, 0, \h70, \h00,
            \hBF, \hFF, \hFF, \hFF, \hFF, \hFF, \hFF, \hFF>>),
      Arr(<<0, 0, 0, 0, 1, 0, \h7E, \hFF,
            \hBF, \hFF, \hFF, \hFF, \hFF, \hFF, \hFF, \hFF>>),
      Arr(<<0, 0, 0, 0, 1, 0, \h7F, \hFF,
            \hBF, \hFF, \hFF, \hFF, \hFF, \hFF, \hFF, \hFE>>),
      Arr(<<0, 0, 0, 0, 1, 0, \h40, \h00,
            \h80, \h00, \h00, \h00, \h00, \h00, \h00, \h00>>) }

\* uuidv7_generator() and uuidv7_generator(uuidv7 last_uuid): the seed is
\* uuidv7(0, 0, 0) or any value from_bytes accepted.
SeedPool ==
    {Uuidv7Zero} \cup {from_bytes(b).data : b \in {x \in SeedBytes : from_bytes(x).kind = "value"}}

NoBytes == <<>>

----------------------------------------------------------------------------
(* uuidv7 text form *)

\* Characters are their ASCII codes, a string_view is a function from
\* 0..length-1 to codes.
Digits == <<"0", "1", "2", "3", "4", "5", "6", "7", "8", "9">>
Lower == <<"a", "b", "c", "d", "e", "f", "g", "h", "i", "j", "k", "l", "m",
           "n", "o", "p", "q", "r", "s", "t", "u", "v", "w", "x", "y", "z">>
Upper == <<"A", "B", "C", "D", "E", "F", "G", "H", "I", "J", "K", "L", "M",
           "N", "O", "P", "Q", "R", "S", "T", "U", "V", "W", "X", "Y", "Z">>

Ascii(c) ==
    IF \E i \in 1..10 : Digits[i] = c THEN 47 + (CHOOSE i \in 1..10 : Digits[i] = c)
    ELSE IF \E i \in 1..26 : Lower[i] = c THEN 96 + (CHOOSE i \in 1..26 : Lower[i] = c)
    ELSE IF \E i \in 1..26 : Upper[i] = c THEN 64 + (CHOOSE i \in 1..26 : Upper[i] = c)
    ELSE IF c = "-" THEN 45
    ELSE 0

Text(t) == [i \in 0..(Len(t) - 1) |-> Ascii(t[i + 1])]

Length(str) == Cardinality(DOMAIN str)

\* Lines 188-193 of uuidv7.hpp: the lambda hex_to_int.
hex_to_int(c) ==
    IF c >= 48 /\ c <= 57 THEN c - 48
    ELSE IF c >= 97 /\ c <= 102 THEN c - 97 + 10
    ELSE IF c >= 65 /\ c <= 70 THEN c - 65 + 10
    ELSE 255

\* Lines 200-210: decode the sixteen hex pairs, stepping over the hyphens.
RECURSIVE ParseLoop(_, _, _, _, _)
ParseLoop(str, include_hyphens, result, c0, i) ==
    IF i >= 16 THEN [result |-> "Success", data |-> result]
    ELSE LET c == IF include_hyphens /\ (c0 = 8 \/ c0 = 13 \/ c0 = 18 \/ c0 = 23)
                  THEN c0 + 1 ELSE c0
             h1 == hex_to_int(str[c])
             h2 == hex_to_int(str[c + 1])
         IN IF h1 = 255 \/ h2 = 255
            THEN [result |-> "InvalidFormat", data |-> result]
            ELSE ParseLoop(str, include_hyphens,
                           [result EXCEPT ![i] = (h1 * 16 + h2) % 256], c + 2, i + 1)

\* Lines 185-210 with lines 195-198 moved above lines 185-186: the variant
\* character is examined before the version character.
ParseBodyVariantFirst(str, result, include_hyphens, version_index, variant_index) ==
    LET var_char == hex_to_int(str[variant_index]) IN
    IF var_char = 255 THEN [result |-> "InvalidFormat", data |-> result]
    ELSE IF ((var_char \div 4) % 4) # VARIANT THEN [result |-> "InvalidVariant", data |-> result]
    ELSE IF str[version_index] # 55 THEN [result |-> "InvalidVersion", data |-> result]
    ELSE ParseLoop(str, include_hyphens, result, 0, 0)

\* Lines 185-210 without lines 185-186: the version character is not looked at.
ParseBodyNoVersionCheck(str, result, include_hyphens, version_index, variant_index) ==
    LET var_char == hex_to_int(str[variant_index]) IN
    IF var_char = 255 THEN [result |-> "InvalidFormat", data |-> result]
    ELSE IF ((var_char \div 4) % 4) # VARIANT THEN [result |-> "InvalidVariant", data |-> result]
    ELSE ParseLoop(str, include_hyphens, result, 0, 0)

\* Lines 185-210, once the length and the hyphens have fixed the indices.
ParseBody(str, result, include_hyphens, version_index, variant_index) ==
    IF str[version_index] # 55 THEN [result |-> "InvalidVersion", data |-> result]
    ELSE LET var_char == hex_to_int(str[variant_index]) IN
         IF var_char = 255 THEN [result |-> "InvalidFormat", data |-> result]
         ELSE IF ((var_char \div 4) % 4) # VARIANT THEN [result |-> "InvalidVariant", data |-> result]
         ELSE ParseLoop(str, include_hyphens, result, 0, 0)

\* Lines 170-211: parse_inner(str, result).
parse_inner(str, result) ==
    IF Length(str) = 36
    THEN IF str[8] # 45 \/ str[13] # 45 \/ str[18] # 45 \/ str[23] # 45
         THEN [result |-> "InvalidFormat", data |-> result]
         ELSE ParseBody(str, result, TRUE, 14, 19)
    ELSE IF Length(str) = 32
    THEN ParseBody(str, result, FALSE, 12, 16)
    ELSE [result |-> "InvalidFormat", data |-> result]

\* Lines 212-226: parse returns the value or throws invalid_format_error
\* with the message of the failure.
parse(str) ==
    LET r == parse_inner(str, Uuidv7Zero) IN
    CASE r.result = "Success" -> [kind |-> "value", data |-> r.data]
      [] r.result = "InvalidVersion" -> [kind |-> "invalid_version", data |-> NoBytes]
      [] r.result = "InvalidVariant" -> [kind |-> "invalid_variant", data |-> NoBytes]
      [] r.result = "InvalidFormat" -> [kind |-> "invalid_format", data |-> NoBytes]
      [] OTHER -> [kind |-> "unknown_error", data |-> NoBytes]

\* Lines 227-232: try_parse returns the value or std::nullopt.
try_parse(str) ==
    LET r == parse_inner(str, Uuidv7Zero) IN
    IF r.result = "Success" THEN [kind |-> "value", data |-> r.data]
    ELSE [kind |-> "nullopt", data |-> NoBytes]

\* Lines 243-254: from_bytes(const uint8_t*); a null pointer is NoBytes.
from_bytes_ptr(bytes) ==
    IF bytes = NoBytes THEN [kind |-> "invalid_format", data |-> NoBytes]
    ELSE from_bytes([i \in 0..15 |-> bytes[i]])

\* Line 257 with the upper case digits.
HEX_CHARS_UPPER == Text(<<"0", "1", "2", "3", "4", "5", "6", "7", "8", "9", "A", "B", "C", "D", "E", "F">>)

\* Lines 256-272: to_string(include_hyphens).  Line 257: HEX_CHARS.
HEX_CHARS == Text(<<"0", "1", "2", "3", "4", "5", "6", "7", "8", "9", "a", "b", "c", "d", "e", "f">>)

\* Lines 261-270 with the two digits of each byte in the other order: the
\* low nibble is written first.
RECURSIVE ToStringLoopSwapped(_, _, _, _, _)
ToStringLoopSwapped(bytes, include_hyphens, result, c0, i) ==
    IF i >= 16 THEN result
    ELSE LET dash == include_hyphens /\ (i = 4 \/ i = 6 \/ i = 8 \/ i = 10)
             r0 == IF dash THEN [result EXCEPT ![c0] = 45] ELSE result
             c == IF dash THEN c0 + 1 ELSE c0
         IN ToStringLoopSwapped(bytes, include_hyphens,
                                [r0 EXCEPT ![c] = HEX_CHARS[bytes[i] % 16],
                                           ![c + 1] = HEX_CHARS[(bytes[i] \div 16) % 16]],
                                c + 2, i + 1)

\* Lines 261-270: the loop over the sixteen bytes, a hyphen before bytes
\* 4, 6, 8 and 10.
RECURSIVE ToStringLoop(_, _, _, _, _)
ToStringLoop(bytes, include_hyphens, result, c0, i) ==
    IF i >= 16 THEN result
    ELSE LET dash == include_hyphens /\ (i = 4 \/ i = 6 \/ i = 8 \/ i = 10)
             r0 == IF dash THEN [result EXCEPT ![c0] = 45] ELSE result
             c == IF dash THEN c0 + 1 ELSE c0
         IN ToStringLoop(bytes, include_hyphens,
                         [r0 EXCEPT ![c] = HEX_CHARS[(bytes[i] \div 16) % 16],
                                    ![c + 1] = HEX_CHARS[bytes[i] % 16]],
                         c + 2, i + 1)

to_string(data, include_hyphens) ==
    ToStringLoop(data, include_hyphens,
                 [k \in 0..((IF include_hyphens THEN 36 ELSE 32) - 1) |-> 0], 0, 0)

----------------------------------------------------------------------------
(* Inputs of the value-type operations *)

\* The texts of the test file.
TestTexts == {
    \* valid with hyphens (ConvertString)
    Text(<<
           "0", "1", "9", "6", "5", "3", "4", "7", "-", "e", "5", "6", "d", "-", "7", "5", "7", "1",
           "-", "a", "1", "b", "b", "-", "6", "1", "2", "0", "d", "b", "a", "3", "a", "6", "4", "5">>),
    \* valid without hyphens (ConvertString)
    Text(<<
           "0", "1", "9", "6", "5", "3", "4", "7", "e", "5", "6", "d", "7", "5", "7", "1", "a", "1",
           "b", "b", "6", "1", "2", "0", "d", "b", "a", "3", "a", "6", "4", "5">>),
    \* upper case hex digits
    Text(<<
           "0", "1", "9", "6", "5", "3", "4", "7", "-", "E", "5", "6", "D", "-", "7", "5", "7", "1",
           "-", "A", "1", "B", "B", "-", "6", "1", "2", "0", "D", "B", "A", "3", "A", "6", "4", "5">>),
    \* too short
    Text(<<
           "0", "1", "9", "6", "5", "3", "4", "7", "-", "e", "5", "6", "d", "-", "7", "5", "7", "1",
           "-", "a", "1", "b", "b", "-">>),
    \* 32 characters, hyphens included
    Text(<<
           "0", "1", "9", "6", "5", "3", "4", "7", "-", "e", "5", "6", "d", "-", "7", "5", "7", "1",
           "-", "a", "1", "b", "b", "-", "6", "1", "2", "0", "d", "b", "a", "3">>),
    \* hyphens misplaced
    Text(<<
           "0", "1", "9", "6", "5", "3", "4", "-", "7", "e", "5", "6", "-", "d", "7", "5", "7", "-",
           "1", "a", "1", "b", "-", "b", "6", "1", "2", "0", "d", "b", "a", "3", "a", "6", "4", "5">>),
    \* a character that is no hex digit
    Text(<<
           "0", "1", "9", "6", "5", "3", "4", "7", "-", "e", "5", "6", "d", "-", "7", "5", "7", "1",
           "-", "a", "1", "b", "b", "-", "6", "1", "2", "0", "d", "b", "a", "3", "a", "6", "4", "Z">>),
    \* version 4
    Text(<<
           "7", "5", "f", "5", "0", "a", "2", "4", "-", "9", "9", "5", "d", "-", "4", "6", "0", "6",
           "-", "b", "f", "3", "e", "-", "7", "f", "6", "c", "5", "b", "7", "6", "c", "5", "c", "1">>),
    \* variant bits 00
    Text(<<
           "0", "1", "9", "6", "5", "3", "4", "7", "-", "e", "5", "6", "d", "-", "7", "5", "7", "1",
           "-", "0", "1", "b", "b", "-", "6", "1", "2", "0", "d", "b", "a", "3", "a", "6", "4", "5">>) }

\* Characters written over one position of a text.
PatchChars == {Ascii("7"), Ascii("0"), Ascii("c"), Ascii("F"), Ascii("g"), Ascii("-")}

\* The version position, the variant position and the last position of a
\* text of 36 or of 32 characters.
PatchAt(s) == IF Length(s) = 36 THEN <<14, 19, 35>> ELSE <<12, 16, 31>>

\* The texts of 32 or 36 characters with any of those three positions
\* overwritten at once.
MultiPatched ==
    { [s EXCEPT ![PatchAt(s)[1]] = a, ![PatchAt(s)[2]] = b, ![PatchAt(s)[3]] = c] :
          <<s, a, b, c>> \in
              { <<s, a, b, c>> \in TestTexts \X PatchChars \X PatchChars \X PatchChars :
                    Length(s) \in {32, 36} } }

\* Every text of TestTexts, every one with a single character replaced, and
\* the texts with several characters replaced.
TextPool ==
    TestTexts \cup MultiPatched \cup
    { [s EXCEPT ![p] = ch] : <<s, p, ch>> \in
          { <<s, p, ch>> \in TestTexts \X (0..35) \X PatchChars : p \in DOMAIN s } }

\* Byte arrays handed to from_bytes: the array of the test file, with byte 6
\* or byte 8 replaced, and the seeds of the generator.
TestBytes ==
    Arr(<<\h01, \h96, \h53, \h47, \hE5, \h6D, \h75, \h71,
          \hA1, \hBB, \h61, \h20, \hDB, \hA3, \hA6, \h45>>)

PatchBytes == {\h00, \h3F, \h40, \h70, \h7F, \h80, \hBF, \hC0, \hF7, \hFF}

BytesPool ==
    SeedBytes \cup {TestBytes}
        \cup { [TestBytes EXCEPT ![p] = b] : <<p, b>> \in {6, 8} \X PatchBytes }

----------------------------------------------------------------------------
(* The generator: threads calling generate() on one instance *)

InitGen ==
    /\ last_generated_ \in SeedPool
    /\ mutex_ = NoThread
    /\ pc = [t \in Threads |-> "idle"]
    /\ millis_bytes = [t \in Threads |-> NoBytes]
    /\ rand = [t \in Threads |-> NoBytes]
    /\ entry = [t \in Threads |-> NoBytes]
    /\ acquired = 0
    /\ calls = 0
    /\ log = <<>>

NoArg == [src |-> "none", given |-> FALSE, val |-> NoBytes, of |-> NoBytes, hyphens |-> FALSE]
NoRes == [kind |-> "none", data |-> NoBytes]

InitVal ==
    /\ op = "none"
    /\ arg = NoArg
    /\ res = NoRes

Init == InitGen /\ InitVal

\* A completed call: how it ended, its place in the order of lock
\* acquisitions, the stored value when the lock was taken and when it was
\* released, the clock bytes the call kept and the clock reading they
\* were taken from, how many times it called generate_random() and the
\* buffer it got.
Done(t, kind, after) ==
    [kind |-> kind, ticket |-> entry[t].ticket, before |-> entry[t].data,
     after |-> after, now |-> millis_bytes[t], millis |-> entry[t].millis,
     drawn |-> entry[t].drawn, rand |-> rand[t]]

\* The locals go out of scope but the mutex stays locked, as with a bare
\* mutex_.lock() in place of the lock_guard of line 9.
LeaveHoldingLock(t) ==
    /\ mutex_' = mutex_
    /\ pc' = [pc EXCEPT ![t] = "idle"]
    /\ millis_bytes' = [millis_bytes EXCEPT ![t] = NoBytes]
    /\ rand' = [rand EXCEPT ![t] = NoBytes]
    /\ entry' = [entry EXCEPT ![t] = NoBytes]

\* ~lock_guard: the mutex is released and the locals go out of scope.
Leave(t) ==
    /\ mutex_' = NoThread
    /\ pc' = [pc EXCEPT ![t] = "idle"]
    /\ millis_bytes' = [millis_bytes EXCEPT ![t] = NoBytes]
    /\ rand' = [rand EXCEPT ![t] = NoBytes]
    /\ entry' = [entry EXCEPT ![t] = NoBytes]

\* A thread calls generate() and blocks on the mutex.
Call(t) ==
    /\ pc[t] = "idle"
    /\ calls < MaxCalls
    /\ calls' = calls + 1
    /\ pc' = [pc EXCEPT ![t] = "wait"]
    /\ UNCHANGED <<last_generated_, mutex_, millis_bytes, rand, entry, log, acquired, op, arg, res>>

\* Line 9 left out: the caller goes on without waiting for the mutex.
LockNoMutex(t) ==
    /\ pc[t] = "wait"
    /\ mutex_' = t
    /\ acquired' = acquired + 1
    /\ entry' = [entry EXCEPT ![t] = [data |-> last_generated_, ticket |-> acquired + 1, millis |-> NoBytes, drawn |-> 0]]
    /\ pc' = [pc EXCEPT ![t] = "clock"]
    /\ UNCHANGED <<last_generated_, millis_bytes, rand, calls, log, op, arg, res>>

\* Line 9: std::lock_guard<std::mutex> lock(mutex_).
Lock(t) ==
    /\ pc[t] = "wait"
    /\ mutex_ = NoThread
    /\ mutex_' = t
    /\ acquired' = acquired + 1
    /\ entry' = [entry EXCEPT ![t] = [data |-> last_generated_, ticket |-> acquired + 1, millis |-> NoBytes, drawn |-> 0]]
    /\ pc' = [pc EXCEPT ![t] = "clock"]
    /\ UNCHANGED <<last_generated_, millis_bytes, rand, calls, log, op, arg, res>>

\* Lines 11-19 with line 21 moved above line 19: the clock bytes are copied
\* into the stored value before the branch is chosen.
ReadClockStoresTimestamp(t) ==
    /\ pc[t] = "clock"
    /\ \E millis \in ClockPool :
         LET mb == MillisBytes(millis) IN
         /\ millis_bytes' = [millis_bytes EXCEPT ![t] = mb]
         /\ entry' = [entry EXCEPT ![t].millis = millis]
         /\ last_generated_' = [i \in 0..15 |-> IF i < 6 THEN mb[i] ELSE last_generated_[i]]
         /\ pc' = [pc EXCEPT ![t] = IF TimeAdvanced(last_generated_, mb) THEN "random" ELSE "inc"]
    /\ UNCHANGED <<mutex_, rand, calls, log, acquired, op, arg, res>>

\* Lines 11-19: read the clock, keep its low 48 bits, compare with the
\* stored timestamp and choose the branch.
ReadClock(t) ==
    /\ pc[t] = "clock"
    /\ \E millis \in ClockPool :
         LET mb == MillisBytes(millis) IN
         /\ millis_bytes' = [millis_bytes EXCEPT ![t] = mb]
         /\ entry' = [entry EXCEPT ![t].millis = millis]
         /\ pc' = [pc EXCEPT ![t] = IF TimeAdvanced(last_generated_, mb) THEN "random" ELSE "inc"]
    /\ UNCHANGED <<last_generated_, mutex_, rand, calls, log, acquired, op, arg, res>>

\* Line 20: generate_random() returns ten bytes.
Random(t) ==
    /\ pc[t] = "random"
    /\ \E r \in RandPool : rand' = [rand EXCEPT ![t] = r]
    /\ entry' = [entry EXCEPT ![t].drawn = @ + 1]
    /\ pc' = [pc EXCEPT ![t] = "copy"]
    /\ UNCHANGED <<last_generated_, mutex_, millis_bytes, calls, log, acquired, op, arg, res>>

\* Line 21 moved before line 20: the timestamp is already written when
\* generate_random() throws.
RandomThrowAfterCopy(t) ==
    /\ pc[t] = "random"
    /\ last_generated_' = [i \in 0..15 |-> IF i < 6 THEN millis_bytes[t][i] ELSE last_generated_[i]]
    /\ log' = Append(log, [Done(t, "random_error", last_generated_') EXCEPT !.drawn = @ + 1])
    /\ Leave(t)
    /\ UNCHANGED <<calls, acquired, op, arg, res>>

\* Line 20: generate_random() throws (csprng/unix.cpp:18, openssl.cpp:24,
\* windows.cpp:17); nothing has been written yet.
RandomThrow(t) ==
    /\ pc[t] = "random"
    /\ log' = Append(log, [Done(t, "random_error", last_generated_) EXCEPT !.drawn = @ + 1])
    /\ Leave(t)
    /\ UNCHANGED <<last_generated_, calls, acquired, op, arg, res>>

\* Lines 21-23.
Copy(t) ==
    /\ pc[t] = "copy"
    /\ last_generated_' = StoreCopy(last_generated_, millis_bytes[t], rand[t])
    /\ pc' = [pc EXCEPT ![t] = "mask"]
    /\ UNCHANGED <<mutex_, millis_bytes, rand, entry, calls, log, acquired, op, arg, res>>

\* Lines 25-26.
Mask(t) ==
    /\ pc[t] = "mask"
    /\ last_generated_' = StoreMask(last_generated_)
    /\ pc' = [pc EXCEPT ![t] = "return"]
    /\ UNCHANGED <<mutex_, millis_bytes, rand, entry, calls, log, acquired, op, arg, res>>

\* Lines 28-38.
IncrementLow(t) ==
    /\ pc[t] = "inc"
    /\ LET r == IncLow(last_generated_) IN
         /\ last_generated_' = r.data
         /\ pc' = [pc EXCEPT ![t] = IF r.target > 0 THEN "carry" ELSE "return"]
    /\ UNCHANGED <<mutex_, millis_bytes, rand, entry, calls, log, acquired, op, arg, res>>

\* Lines 40-61, leaving by one of the breaks.
IncrementHigh(t) ==
    /\ pc[t] = "carry"
    /\ LET r == IncHigh(last_generated_) IN
         /\ ~r.thrown
         /\ last_generated_' = r.data
         /\ pc' = [pc EXCEPT ![t] = "return"]
    /\ UNCHANGED <<mutex_, millis_bytes, rand, entry, calls, log, acquired, op, arg, res>>

\* Lines 40-61 with the mutex locked and unlocked by hand, the unlock only
\* before line 63: the throw of line 58 leaves the mutex locked.
OverflowHoldingLock(t) ==
    /\ pc[t] = "carry"
    /\ LET r == IncHigh(last_generated_) IN
         /\ r.thrown
         /\ last_generated_' = r.data
         /\ log' = Append(log, Done(t, "overflow", r.data))
    /\ LeaveHoldingLock(t)
    /\ UNCHANGED <<calls, acquired, op, arg, res>>

\* Lines 40-61, leaving by the throw of sequence_overflow_error at line 58.
Overflow(t) ==
    /\ pc[t] = "carry"
    /\ LET r == IncHigh(last_generated_) IN
         /\ r.thrown
         /\ last_generated_' = r.data
         /\ log' = Append(log, Done(t, "overflow", r.data))
    /\ Leave(t)
    /\ UNCHANGED <<calls, acquired, op, arg, res>>

\* Line 63: the caller receives a copy of last_generated_; the lock is released.
Return(t) ==
    /\ pc[t] = "return"
    /\ log' = Append(log, Done(t, "value", last_generated_))
    /\ Leave(t)
    /\ UNCHANGED <<last_generated_, calls, acquired, op, arg, res>>

Next ==
    \E t \in Threads :
        \/ Call(t)
        \/ Lock(t)
        \/ ReadClock(t)
        \/ Random(t)
        \/ RandomThrow(t)
        \/ Copy(t)
        \/ Mask(t)
        \/ IncrementLow(t)
        \/ IncrementHigh(t)
        \/ Overflow(t)
        \/ Return(t)

Spec == Init /\ [][Next]_vars

\* A thread inside generate(), past the lock: every step from line 11 to the
\* return or the throw.
Run(t) ==
    \/ ReadClock(t)
    \/ Random(t)
    \/ RandomThrow(t)
    \/ Copy(t)
    \/ Mask(t)
    \/ IncrementLow(t)
    \/ IncrementHigh(t)
    \/ Overflow(t)
    \/ Return(t)

\* Two seeds of timestamp 256 ms: the one whose next increment carries out
\* of bytes 9..15 into byte 8, and the one a single increment away from the
\* maximum tail.
CarrySeeds ==
    { d \in SeedPool : d[4] = 1 /\ ((d[8] = 128 /\ d[15] = 255) \/ d[15] = 254) }

InitFair == Init /\ last_generated_ \in CarrySeeds

\* The same threads under a scheduler that keeps a running thread running
\* (the clock and generate_random() answer) and a mutex that is fair: a
\* thread that finds the mutex free again and again gets it.
SpecFair ==
    /\ InitFair
    /\ [][Next]_vars
    /\ \A t \in Threads : WF_vars(Run(t))
    /\ \A t \in Threads : SF_vars(Lock(t))

----------------------------------------------------------------------------
(* One caller using the generator and the value type *)

\* generate() run from the lock to the return by a caller that has the
\* generator to itself (lines 8-64).  rnd is the buffer generate_random()
\* returns, or RandFail when it throws.
RandFail == <<"throw">>

GenerateOutcome(last, millis, rnd) ==
    LET mb == MillisBytes(millis) IN
    IF TimeAdvanced(last, mb)
    THEN IF rnd = RandFail
         THEN [kind |-> "random_error", stored |-> last]
         ELSE [kind |-> "value", stored |-> StoreMask(StoreCopy(last, mb, rnd))]
    ELSE LET lo == IncLow(last) IN
         IF lo.target > 0
         THEN LET hi == IncHigh(lo.data) IN
              [kind |-> IF hi.thrown THEN "overflow" ELSE "value", stored |-> hi.data]
         ELSE [kind |-> "value", stored |-> lo.data]

\* The caller starts with nothing in hand and a seeded generator, or with
\* a text, a byte array or a null pointer in hand and the default generator.
PoolArgs ==
    { [src |-> "text", given |-> TRUE, val |-> s, of |-> NoBytes, hyphens |-> FALSE] : s \in TextPool }
    \cup { [src |-> "bytes", given |-> TRUE, val |-> b, of |-> NoBytes, hyphens |-> FALSE] : b \in BytesPool }
    \cup { [src |-> "null", given |-> TRUE, val |-> NoBytes, of |-> NoBytes, hyphens |-> FALSE] }

InitValue ==
    \/ InitGen /\ InitVal
    \/ /\ InitGen
       /\ last_generated_ = Uuidv7Zero
       /\ op = "none"
       /\ res = NoRes
       /\ arg \in PoolArgs

threadVars == <<mutex_, pc, millis_bytes, rand, entry, acquired, log>>

\* generate(); the values it returns are fed to the value type, so it is
\* run by the caller that started with nothing in hand.
GenerateCall ==
    /\ ~arg.given
    /\ calls < MaxCalls
    /\ \E millis \in ClockPool : \E rnd \in RandPool \cup {RandFail} :
         LET o == GenerateOutcome(last_generated_, millis, rnd) IN
         /\ last_generated_' = o.stored
         /\ res' = [kind |-> o.kind, data |-> IF o.kind = "value" THEN o.stored ELSE NoBytes]
    /\ op' = "generate"
    /\ arg' = NoArg
    /\ calls' = calls + 1
    /\ UNCHANGED threadVars

\* parse(text in hand).
ParseCall ==
    /\ arg.src \in {"text", "to_string"}
    /\ op' = "parse"
    /\ res' = parse(arg.val)
    /\ UNCHANGED <<arg, last_generated_, calls>>
    /\ UNCHANGED threadVars

\* try_parse(text in hand).
TryParseCall ==
    /\ arg.src \in {"text", "to_string"}
    /\ op' = "try_parse"
    /\ res' = try_parse(arg.val)
    /\ UNCHANGED <<arg, last_generated_, calls>>
    /\ UNCHANGED threadVars

\* from_bytes(array in hand).
FromBytesCall ==
    /\ arg.src = "bytes"
    /\ op' = "from_bytes"
    /\ res' = from_bytes(arg.val)
    /\ UNCHANGED <<arg, last_generated_, calls>>
    /\ UNCHANGED threadVars

\* from_bytes(pointer in hand), the pointer null or pointing at the array.
FromBytesPtrCall ==
    /\ arg.src \in {"bytes", "null"}
    /\ op' = "from_bytes_ptr"
    /\ res' = from_bytes_ptr(arg.val)
    /\ UNCHANGED <<arg, last_generated_, calls>>
    /\ UNCHANGED threadVars

\* to_string(include_hyphens) of the value the last operation returned; the
\* text is now in hand.
ToStringCall ==
    /\ res.kind = "value"
    /\ op # "to_string"
    /\ \E h \in BOOLEAN :
         arg' = [src |-> "to_string", given |-> arg.given, val |-> to_string(res.data, h),
                 of |-> res.data, hyphens |-> h]
    /\ op' = "to_string"
    /\ UNCHANGED <<res, last_generated_, calls>>
    /\ UNCHANGED threadVars

NextValue ==
    \/ GenerateCall
    \/ ParseCall
    \/ TryParseCall
    \/ FromBytesCall
    \/ FromBytesPtrCall
    \/ ToStringCall

SpecValue == InitValue /\ [][NextValue]_vars

----------------------------------------------------------------------------
(* Vocabulary of the properties *)

\* The 74-bit tail rand_a : rand_b of the layout table (byte 6's low nibble,
\* byte 7, byte 8's low 6 bits, bytes 9..15) as one unsigned number, written
\* in four limbs of 12, 22, 24 and 16 bits, most significant first:
\* rand_a, then rand_b's top 22, middle 24 and low 16 bits.
TailLimbs(d) ==
    << (d[6] % 16) * 256 + d[7],
       (d[8] % 64) * 65536 + d[9] * 256 + d[10],
       d[11] * 65536 + d[12] * 256 + d[13],
       d[14] * 256 + d[15] >>

LimbMax == << 2 ^ 12 - 1, 2 ^ 22 - 1, 2 ^ 24 - 1, 2 ^ 16 - 1 >>

\* rand_a = 0x0FFF and rand_b = 0x3FFFFFFFFFFFFFFF.
AllOnes(limbs) == limbs = LimbMax
AllZero(limbs) == limbs = <<0, 0, 0, 0>>

\* limbs + 1 as one unsigned number (limbs not all ones): add 1 to the
\* lowest limb and carry upwards.
LimbSucc(limbs) ==
    IF limbs[4] < LimbMax[4] THEN <<limbs[1], limbs[2], limbs[3], limbs[4] + 1>>
    ELSE IF limbs[3] < LimbMax[3] THEN <<limbs[1], limbs[2], limbs[3] + 1, 0>>
    ELSE IF limbs[2] < LimbMax[2] THEN <<limbs[1], limbs[2] + 1, 0, 0>>
    ELSE <<limbs[1] + 1, 0, 0, 0>>

VersionOf(d) == (d[6] \div 16) % 16
VariantOf(d) == (d[8] \div 64) % 4
SameTimestamp(a, b) == \A k \in 0..5 : a[k] = b[k]

\* now_ms: the clock reading as 48 bits, most significant byte first.
Low48(millis) == [i \in 0..5 |-> millis[i + 3]]

Calls == 1..Len(log)
Returned(i) == log[i].kind = "value"
\* The call read a clock value not greater than the stored timestamp.
OnIncrementPath(i) == Memcmp6(log[i].before, log[i].now) >= 0

----------------------------------------------------------------------------
(* Properties *)

\* C1: every successful generate() returns a value strictly greater, byte by
\* byte, than the value stored when it was called (the seed for the first
\* call), and of two consecutive successful calls the later returns the
\* greater value, whatever clock value each call read.
C1_ConsecutiveSuccessesIncrease ==
    \A i \in Calls :
        Returned(i) =>
            /\ Less(log[i].before, log[i].after)
            /\ (i > 1 /\ Returned(i - 1)) => Less(log[i - 1].after, log[i].after)

\* C1 witness: three successful calls in a row; the second read a clock
\* behind the stored timestamp, the third read the stored millisecond.
C1_Witness ==
    /\ Len(log) >= 3
    /\ Returned(1) /\ Returned(2) /\ Returned(3)
    /\ Memcmp6(log[1].before, log[1].now) < 0
    /\ Memcmp6(log[2].before, log[2].now) > 0
    /\ Memcmp6(log[3].before, log[3].now) = 0

\* C2: any value returned by generate() is strictly less than every value the
\* same generator returns later, failed calls in between or not.
C2_ReturnedValuesIncrease ==
    \A i \in Calls : \A j \in Calls :
        (i < j /\ Returned(i) /\ Returned(j)) => Less(log[i].after, log[j].after)

\* C3: a generate() that fails with sequence overflow leaves all 16 stored
\* bytes as they were before the call.
C3_OverflowKeepsStoredValue ==
    \A i \in Calls : log[i].kind = "overflow" => log[i].after = log[i].before

\* C4: when the stored tail is all ones and the stored timestamp is not less
\* than the clock reading, generate() fails with sequence overflow and
\* returns no value.
C4_MaxTailOverflows ==
    \A i \in Calls :
        (OnIncrementPath(i) /\ AllOnes(TailLimbs(log[i].before))) => log[i].kind = "overflow"

\* C4 witness: a call made on a stored value with the maximum tail, the clock
\* not ahead of it.
C4_Witness ==
    \E i \in Calls : OnIncrementPath(i) /\ AllOnes(TailLimbs(log[i].before))

\* C5: once a call has failed with sequence overflow, every later call fails
\* with sequence overflow too, as long as no call in between read a clock
\* value greater than the stored timestamp.
C5_OverflowRepeats ==
    \A i \in Calls : \A j \in Calls :
        (/\ i < j
         /\ log[i].kind = "overflow"
         /\ \A k \in (i + 1)..j : OnIncrementPath(k))
        => log[j].kind = "overflow"

\* C6: a call that fails in the random source was on the time-advanced
\* branch, leaves the stored value exactly as it found it, and the next call
\* finds that same value.
C6_RandomFailureKeepsStoredValue ==
    \A i \in Calls :
        log[i].kind = "random_error" =>
            /\ ~OnIncrementPath(i)
            /\ log[i].after = log[i].before
            /\ (i < Len(log)) => log[i + 1].before = log[i].before
            /\ (i = Len(log) /\ mutex_ = NoThread) => last_generated_ = log[i].before

\* C6 witness: a random-source failure followed by another completed call.
C6_Witness ==
    \E i \in Calls : log[i].kind = "random_error" /\ i < Len(log)

\* C7: the stored value, and every value returned by generate(), parse(),
\* try_parse() or from_bytes(), has version nibble 7 (byte 6, high nibble)
\* and variant bits 0b10 (byte 8, top two bits); the increment's carry never
\* reaches them.
C7_FixedBits ==
    /\ VersionOf(last_generated_) = 7 /\ VariantOf(last_generated_) = 2
    /\ (op \in {"generate", "parse", "try_parse", "from_bytes", "from_bytes_ptr"} /\ res.kind = "value")
           => (VersionOf(res.data) = 7 /\ VariantOf(res.data) = 2)

\* C7 witness: generate() has just returned a value whose increment carried
\* out of bytes 9..15 into byte 8's low six bits while they were all ones,
\* that is, up to the variant bits.
C7_Witness ==
    /\ op = "generate"
    /\ res.kind = "value"
    /\ res.data[8] = 128
    /\ \A k \in 9..15 : res.data[k] = 0
    /\ res.data[7] # 0

C9_AtomicAndIncreasing ==
    /\ \A t \in Threads : pc[t] \notin {"idle", "wait"} => mutex_ = t
    /\ \A i \in Calls :
          /\ log[i].ticket = i
          /\ i > 1 => log[i].before = log[i - 1].after
    /\ \A i \in Calls : \A j \in Calls :
          (i < j /\ Returned(i) /\ Returned(j)) => Less(log[i].after, log[j].after)

\* C10: a call on the same-or-regressed-time path whose stored tail is not
\* all ones returns the stored value with its 74-bit tail, read as one
\* unsigned number, increased by exactly 1: timestamp, version and variant
\* bits are unchanged; a zero tail gives the stored value with byte 15 = 01.
C10_TailPlusOne ==
    \A i \in Calls :
        (OnIncrementPath(i) /\ ~AllOnes(TailLimbs(log[i].before))) =>
            /\ Returned(i)
            /\ TailLimbs(log[i].after) = LimbSucc(TailLimbs(log[i].before))
            /\ SameTimestamp(log[i].after, log[i].before)
            /\ VersionOf(log[i].after) = VersionOf(log[i].before)
            /\ VariantOf(log[i].after) = VariantOf(log[i].before)
            /\ AllZero(TailLimbs(log[i].before)) =>
                   log[i].after = [log[i].before EXCEPT ![15] = 1]

\* C10 witness: an increment whose carry ran through bytes 15..9, byte 8's
\* six bits and byte 7 into byte 6's low nibble.
C10_Witness ==
    \E i \in Calls :
        /\ OnIncrementPath(i)
        /\ Returned(i)
        /\ log[i].before[7] = 255
        /\ log[i].before[8] % 64 = 63
        /\ \A k \in 9..15 : log[i].before[k] = 255

\* C11: a call that reads a clock whose low 48 bits exceed the stored
\* timestamp, and whose random source answers, returns a value; its six
\* timestamp bytes are the low 48 bits of the clock reading, its version is 7
\* and its variant 0b10, and the value returned is the value left stored: the
\* next call finds it, and it is the stored value once the lock is free.
C11_TimeAdvancedValue ==
    \A i \in Calls :
        (Memcmp6(log[i].before, Low48(log[i].millis)) < 0 /\ log[i].kind # "random_error") =>
            /\ Returned(i)
            /\ SameTimestamp(log[i].after, Low48(log[i].millis))
            /\ VersionOf(log[i].after) = 7
            /\ VariantOf(log[i].after) = 2
            /\ (i < Len(log)) => log[i + 1].before = log[i].after
            /\ (i = Len(log) /\ mutex_ = NoThread) => last_generated_ = log[i].after

\* C11 witness: a time-advanced call returned a value after reading a clock
\* beyond 48 bits, with random bytes whose version and variant positions
\* held other bits, and a later call has completed.
C11_Witness ==
    \E i \in Calls :
        /\ i < Len(log)
        /\ Returned(i)
        /\ Memcmp6(log[i].before, Low48(log[i].millis)) < 0
        /\ log[i].millis[2] # 0
        /\ log[i].after[15] = 188
        /\ log[i].after[6] = 7 * 16 + 10

\* C12: when parse() is applied to the text to_string() made of a value,
\* with or without hyphens, it succeeds and yields that value; this holds in
\* particular for both texts of every value generate() returns.
C12_RoundTrip ==
    /\ (op = "parse" /\ arg.src = "to_string") =>
           (res.kind = "value" /\ res.data = arg.of)
    /\ (op = "generate" /\ res.kind = "value") =>
           \A h \in BOOLEAN : parse(to_string(res.data, h)) = [kind |-> "value", data |-> res.data]

\* C12 witness: a value generate() returned from random bytes was written
\* with hyphens and parsed back.
C12_Witness ==
    /\ op = "parse"
    /\ arg.src = "to_string"
    /\ ~arg.given
    /\ arg.hyphens
    /\ Length(arg.val) = 36
    /\ arg.of[15] = 188
    /\ res.kind = "value"

\* The defects of a text, read off its characters.
IsHexChar(c) == (c >= 48 /\ c <= 57) \/ (c >= 97 /\ c <= 102) \/ (c >= 65 /\ c <= 70)
HexValue(c) == IF c <= 57 THEN c - 48 ELSE IF c >= 97 THEN c - 87 ELSE c - 55
HyphenAt == {8, 13, 18, 23}
LengthDefect(s) == Length(s) \notin {32, 36}
HyphenDefect(s) == Length(s) = 36 /\ \E k \in HyphenAt : s[k] # 45
VersionAt(s) == IF Length(s) = 36 THEN 14 ELSE 12
VariantAt(s) == IF Length(s) = 36 THEN 19 ELSE 16
VersionDefect(s) == s[VersionAt(s)] # 55
VariantDefect(s) == IsHexChar(s[VariantAt(s)]) /\ (HexValue(s[VariantAt(s)]) \div 4) # 2
\* A character that is no hex digit, the hyphens of the long form and the
\* version position set aside.
NonHexDefect(s) ==
    \E k \in DOMAIN s :
        /\ ~(Length(s) = 36 /\ k \in HyphenAt)
        /\ k # VersionAt(s)
        /\ ~IsHexChar(s[k])

\* C13: parse() reports a format error for a text whose length is neither
\* 32 nor 36 or whose long form lacks a hyphen at 8, 13, 18 or 23; a version
\* error for a text whose only defect is a version character other than 7;
\* a variant error for a text whose only defect is a variant digit whose
\* top two bits are not 10; a format error for a text whose only defect is
\* a character that is no hex digit; and a value exactly when the text has
\* none of these defects.
C13_ParseErrorKinds ==
    (op = "parse") =>
        LET s == arg.val
            shaped == ~LengthDefect(s) /\ ~HyphenDefect(s)
        IN /\ LengthDefect(s) => res.kind = "invalid_format"
           /\ HyphenDefect(s) => res.kind = "invalid_format"
           /\ (shaped /\ VersionDefect(s) /\ ~VariantDefect(s) /\ ~NonHexDefect(s))
                  => res.kind = "invalid_version"
           /\ (shaped /\ ~VersionDefect(s) /\ VariantDefect(s) /\ ~NonHexDefect(s))
                  => res.kind = "invalid_variant"
           /\ (shaped /\ ~VersionDefect(s) /\ ~VariantDefect(s) /\ NonHexDefect(s))
                  => res.kind = "invalid_format"
           /\ res.kind = "value"
                  <=> (shaped /\ ~VersionDefect(s) /\ ~VariantDefect(s) /\ ~NonHexDefect(s))

\* C13 witness: parse() has reported a version error for a text of 36
\* characters whose only defect is the version character 4.
C13_Witness ==
    /\ op = "parse"
    /\ arg.src = "text"
    /\ Length(arg.val) = 36
    /\ ~HyphenDefect(arg.val)
    /\ arg.val[14] = 52
    /\ ~VariantDefect(arg.val)
    /\ ~NonHexDefect(arg.val)
    /\ res.kind = "invalid_version"

\* The two forms of the same hex digits: the long form without its four
\* hyphens, and the short form with a hyphen put in after 8, 12, 16 and 20
\* digits.
IsLowerHexChar(c) == (c >= 48 /\ c <= 57) \/ (c >= 97 /\ c <= 102)
HyphensBefore(k) == Cardinality({h \in {8, 12, 16, 20} : h <= k})
Bare(s) == [k \in 0..31 |-> s[k + HyphensBefore(k)]]
Hyphenated(s) ==
    [k \in 0..35 |-> IF k \in HyphenAt THEN 45
                      ELSE s[k - Cardinality({h \in HyphenAt : h < k})]]
ValidText(s) ==
    ~LengthDefect(s) /\ ~HyphenDefect(s) /\ ~VersionDefect(s) /\ ~VariantDefect(s) /\ ~NonHexDefect(s)
LowerText(s) == \A k \in DOMAIN s : s[k] = 45 \/ IsLowerHexChar(s[k])

\* C14: when parse() has been applied to a valid lower case text, the other
\* form of the same digits parses to the same value, and to_string(true)
\* and to_string(false) of that value are the long form and the short form
\* character for character; every text to_string() makes is lower case, of
\* 36 characters with hyphens at 8, 13, 18, 23 and nowhere else, or of 32
\* characters without a hyphen.
C14_TextFormsAgree ==
    /\ (op = "parse" /\ ValidText(arg.val) /\ LowerText(arg.val)) =>
           LET s == arg.val
               long == IF Length(s) = 36 THEN s ELSE Hyphenated(s)
               short == IF Length(s) = 36 THEN Bare(s) ELSE s
           IN /\ res.kind = "value"
              /\ parse(long) = res
              /\ parse(short) = res
              /\ to_string(res.data, TRUE) = long
              /\ to_string(res.data, FALSE) = short
    /\ (op = "to_string") =>
           /\ Length(arg.val) = IF arg.hyphens THEN 36 ELSE 32
           /\ \A k \in DOMAIN arg.val :
                  IF arg.hyphens /\ k \in HyphenAt THEN arg.val[k] = 45
                  ELSE IsLowerHexChar(arg.val[k])

\* C14 witness: parse() has returned a value for a valid lower case text of
\* 32 characters that is not one of the two texts of the test file.
C14_Witness ==
    /\ op = "parse"
    /\ arg.src = "text"
    /\ Length(arg.val) = 32
    /\ arg.val[0] = 99
    /\ ValidText(arg.val)
    /\ LowerText(arg.val)
    /\ res.kind = "value"

\* C15: from_bytes, given an array or a pointer, returns a value exactly
\* when the pointer is not null, byte 6 is 0x70..0x7F and byte 8 is
\* 0x80..0xBF; the value's sixteen bytes are then the bytes given, and
\* otherwise the outcome is an invalid-format error carrying no value.
C15_FromBytes ==
    (op \in {"from_bytes", "from_bytes_ptr"}) =>
        LET accepted == /\ arg.src = "bytes"
                        /\ arg.val[6] \in 112..127
                        /\ arg.val[8] \in 128..191
        IN /\ res.kind = "value" <=> accepted
           /\ accepted => (\A k \in 0..15 : res.data[k] = arg.val[k])
           /\ ~accepted => (res.kind = "invalid_format" /\ res.data = NoBytes)

\* C15 witness: from_bytes has returned a value for a pointer to an array
\* whose byte 8 is 0xBF, the last byte with variant bits 10.
C15_Witness ==
    /\ op = "from_bytes_ptr"
    /\ arg.src = "bytes"
    /\ arg.val[8] = 191
    /\ arg.val[0] = 1
    /\ res.kind = "value"

\* C16: after a call failed with sequence overflow, the first later call
\* that reads a clock greater than the timestamp stored at the overflow,
\* and whose random source answers, returns a value; that value carries the
\* clock's timestamp and is greater than every value returned before it.
\* The failed call is not retried: it is one lock acquisition with the one
\* outcome, and it leaves the stored timestamp as it was.
C16_OverflowRecovers ==
    \A i \in Calls :
        log[i].kind = "overflow" =>
            /\ log[i].ticket = i
            /\ \A j \in Calls : (j # i) => log[j].ticket # log[i].ticket
            /\ SameTimestamp(log[i].after, log[i].before)
            /\ \A j \in Calls :
                  (/\ i < j
                   /\ Memcmp6(log[i].before, Low48(log[j].millis)) < 0
                   /\ \A k \in (i + 1)..(j - 1) : Memcmp6(log[i].before, Low48(log[k].millis)) >= 0
                   /\ log[j].kind # "random_error")
                  => /\ Returned(j)
                     /\ SameTimestamp(log[j].after, Low48(log[j].millis))
                     /\ \A m \in 1..(j - 1) : Returned(m) => Less(log[m].after, log[j].after)

\* C16 witness: a value was returned, the next call overflowed, a call that
\* read a clock not ahead of the stored timestamp followed, and then a call
\* that read a later clock returned a value.
C16_Witness ==
    \E i \in Calls : \E j \in Calls :
        /\ 1 < i /\ i + 1 < j
        /\ Returned(i - 1)
        /\ log[i].kind = "overflow"
        /\ \A k \in (i + 1)..(j - 1) : Memcmp6(log[i].before, Low48(log[k].millis)) >= 0
        /\ Memcmp6(log[i].before, Low48(log[j].millis)) < 0
        /\ Returned(j)

\* C17: every completed generate() call is one lock acquisition with one of
\* three outcomes, a value, a sequence overflow or a random-source error;
\* and with a fair mutex and a random source that answers, a call that has
\* been started, whether it waits for the lock or holds it, completes.
C17_CallsComplete ==
    /\ [](\A i \in Calls :
            /\ log[i].kind \in {"value", "overflow", "random_error"}
            /\ log[i].ticket = i)
    /\ [](acquired = Len(log) + Cardinality({t \in Threads : pc[t] \notin {"idle", "wait"}}))
    /\ \A t \in Threads : (pc[t] # "idle") ~> (pc[t] = "idle")

\* C17 witness: calls have ended in each of the three ways while another
\* thread waits for the lock.
C17_Witness ==
    /\ \E i \in Calls : log[i].kind = "value"
    /\ \E i \in Calls : log[i].kind = "overflow"
    /\ \E i \in Calls : log[i].kind = "random_error"
    /\ \E t \in Threads : pc[t] = "wait"

\* C18: a call fails with sequence overflow exactly when it read a clock
\* not greater than the stored timestamp and the stored 74-bit tail was all
\* ones when it took the lock; a time-advanced call does not overflow, and
\* neither does an increment-path call on a tail below the maximum.
C18_OverflowExactlyAtMaxTail ==
    \A i \in Calls :
        /\ log[i].kind = "overflow"
               <=> (OnIncrementPath(i) /\ AllOnes(TailLimbs(log[i].before)))
        /\ ~OnIncrementPath(i) => log[i].kind # "overflow"
        /\ (OnIncrementPath(i) /\ ~AllOnes(TailLimbs(log[i].before))) => log[i].kind # "overflow"

\* C18 witness: one call overflowed, and another returned a value after its
\* carry ran through bytes 15..9, byte 8 and byte 7 into byte 6.
C18_Witness ==
    /\ \E i \in Calls : log[i].kind = "overflow"
    /\ \E j \in Calls :
          /\ OnIncrementPath(j)
          /\ Returned(j)
          /\ log[j].before[6] % 16 < 15
          /\ log[j].before[7] = 255
          /\ log[j].before[8] % 64 = 63
          /\ \A k \in 9..15 : log[j].before[k] = 255

\* C19: a call that read a clock not greater than the stored timestamp
\* leaves the six stored timestamp bytes as they were and does not call
\* generate_random(); a call that read a greater clock calls it once, and
\* the buffer it gets has ten bytes.
C19_RandomOnlyWhenTimeAdvanced ==
    \A i \in Calls :
        /\ OnIncrementPath(i) =>
               /\ SameTimestamp(log[i].after, log[i].before)
               /\ log[i].drawn = 0
               /\ log[i].rand = NoBytes
        /\ ~OnIncrementPath(i) =>
               /\ log[i].drawn = 1
               /\ Returned(i) => Length(log[i].rand) = 10

\* C19 witness: a call that read a clock behind the stored timestamp and a
\* call that drew random bytes have both completed.
C19_Witness ==
    /\ \E i \in Calls : Memcmp6(log[i].before, log[i].now) > 0 /\ Returned(i)
    /\ \E j \in Calls : ~OnIncrementPath(j) /\ Returned(j) /\ log[j].drawn = 1

\* C20: a call takes the increment path (no random bytes drawn) exactly
\* when the stored timestamp, compared byte by byte as unsigned numbers, is
\* not below the low 48 bits of the clock reading.  Hence once a call has
\* read a clock behind the stored timestamp, that call and every later one,
\* as long as none has read a clock beyond that timestamp, keeps the
\* timestamp, version and variant, draws nothing, and ends with the tail
\* one higher or with sequence overflow, never with another error; the
\* first call that reads a clock beyond it takes the time-advanced branch.
C20_BranchByTimestampOnly ==
    /\ \A i \in Calls :
          log[i].drawn = 0 <=> Memcmp6(log[i].before, Low48(log[i].millis)) >= 0
    /\ \A i \in Calls : \A k \in Calls :
          (/\ i <= k
           /\ Memcmp6(log[i].before, Low48(log[i].millis)) > 0
           /\ \A m \in i..k : Memcmp6(log[i].before, Low48(log[m].millis)) >= 0)
          => /\ SameTimestamp(log[k].after, log[i].before)
             /\ VersionOf(log[k].after) = VersionOf(log[k].before)
             /\ VariantOf(log[k].after) = VariantOf(log[k].before)
             /\ log[k].drawn = 0
             /\ log[k].kind \in {"value", "overflow"}
             /\ Returned(k) => TailLimbs(log[k].after) = LimbSucc(TailLimbs(log[k].before))
             /\ (k < Len(log) /\ Memcmp6(log[i].before, Low48(log[k + 1].millis)) < 0)
                    => log[k + 1].drawn = 1

\* C20 witness: a call read a clock behind the stored timestamp, the next
\* read the stored millisecond itself, and the one after read a later clock
\* and drew random bytes.
C20_Witness ==
    \E i \in Calls :
        /\ i + 2 <= Len(log)
        /\ Memcmp6(log[i].before, Low48(log[i].millis)) > 0
        /\ Returned(i)
        /\ Memcmp6(log[i].before, Low48(log[i + 1].millis)) = 0
        /\ Returned(i + 1)
        /\ Memcmp6(log[i].before, Low48(log[i + 2].millis)) < 0
        /\ log[i + 2].drawn = 1

\* C21: of the defects of a text parse() reports the first in this order:
\* a format error for a wrong length or a missing hyphen; then a version
\* error for a version character other than 7, whatever the other
\* characters are; then a format error for a variant character that is no
\* hex digit; then a variant error for variant bits other than 10, even
\* with a non-hex character elsewhere; and last a format error for any
\* other character that is no hex digit.
C21_DefectPrecedence ==
    (op = "parse") =>
        LET s == arg.val
            shaped == ~LengthDefect(s) /\ ~HyphenDefect(s)
        IN /\ ~shaped => res.kind = "invalid_format"
           /\ (shaped /\ VersionDefect(s)) => res.kind = "invalid_version"
           /\ (shaped /\ ~VersionDefect(s) /\ ~IsHexChar(s[VariantAt(s)]))
                  => res.kind = "invalid_format"
           /\ (shaped /\ ~VersionDefect(s) /\ VariantDefect(s))
                  => res.kind = "invalid_variant"
           /\ (shaped /\ ~VersionDefect(s) /\ IsHexChar(s[VariantAt(s)])
                  /\ ~VariantDefect(s) /\ NonHexDefect(s))
                  => res.kind = "invalid_format"

\* C21 witness: parse() has reported a version error for a text of 36
\* characters with three defects: the version character, the variant bits
\* and a character that is no hex digit.
C21_Witness ==
    /\ op = "parse"
    /\ Length(arg.val) = 36
    /\ ~HyphenDefect(arg.val)
    /\ VersionDefect(arg.val)
    /\ VariantDefect(arg.val)
    /\ ~IsHexChar(arg.val[35])
    /\ res.kind = "invalid_version"

\* The call drew random bytes and returned a value.
TimeAdvancedReturn(i) == Returned(i) /\ log[i].drawn = 1 /\ log[i].rand # NoBytes

\* rand_b of a value against the random buffer: byte 8's low six bits are
\* the top six bits of random byte 2, bytes 9..15 are random bytes 3..9.
RandBFromRest(d, r) ==
    /\ d[8] % 64 = r[2] \div 4
    /\ \A k \in 9..15 : d[k] = r[k - 6]

\* C22: in a time-advanced call rand_a of the result is the top 12 bits of
\* the random buffer, all 8 bits of random byte 0 followed by the top 4
\* bits of random byte 1, and rand_b comes from the remaining random bits.
C22_RandATop12Bits ==
    \A i \in Calls :
        TimeAdvancedReturn(i) =>
            /\ TailLimbs(log[i].after)[1] = log[i].rand[0] * 16 + log[i].rand[1] \div 16
            /\ RandBFromRest(log[i].after, log[i].rand)

\* C22 as amended: in a time-advanced call rand_a of the result is the top
\* 4 bits of random byte 0 followed by all 8 bits of random byte 1 (the low
\* 4 bits of byte 0 are dropped), and rand_b is the top 6 bits of random
\* byte 2 followed by random bytes 3..9 (the low 2 bits of byte 2 are
\* dropped).
C22_RandAHighNibbleThenByte ==
    \A i \in Calls :
        TimeAdvancedReturn(i) =>
            /\ TailLimbs(log[i].after)[1] = (log[i].rand[0] \div 16) * 256 + log[i].rand[1]
            /\ RandBFromRest(log[i].after, log[i].rand)

\* C22 witness: a time-advanced call returned a value made from a buffer
\* whose byte 0 is 0xAB and byte 2 is 0xE6, so that the bits kept and the
\* bits dropped differ.
C22_Witness ==
    \E i \in Calls :
        /\ TimeAdvancedReturn(i)
        /\ log[i].rand[0] = 171
        /\ log[i].rand[2] = 230
        /\ log[i].after[6] = 7 * 16 + 10
        /\ log[i].after[8] = 128 + 57

\* The value the generator was constructed with: what the first call to
\* take the lock found, or the stored value if no call has taken it.
SeedOf ==
    IF Len(log) > 0 THEN log[1].before
    ELSE IF \E t \in Threads : entry[t] # NoBytes
         THEN entry[CHOOSE t \in Threads : entry[t] # NoBytes].data
         ELSE last_generated_

\* The clock readings taken so far, as 48 bits: by the completed calls and
\* by the call that holds the lock.
ReadingsSoFar ==
    {Low48(log[i].millis) : i \in Calls}
        \cup {Low48(entry[t].millis) : t \in {u \in Threads : entry[u] # NoBytes /\ entry[u].millis # NoBytes}}

\* C23: no step of any generate() call, successful or failed, lowers the
\* six timestamp bytes of the stored value, and the stored timestamp is
\* never above both the seed's timestamp and every clock reading taken so
\* far.
C23_TimestampMonotoneAndBounded ==
    /\ [][Memcmp6(last_generated_, last_generated_') <= 0]_vars
    /\ [](\/ Memcmp6(last_generated_, SeedOf) <= 0
          \/ \E r \in ReadingsSoFar : Memcmp6(last_generated_, r) <= 0)

\* C23 witness: the stored timestamp has moved past the seed's, and calls
\* that read an earlier clock, one returning a value and one failing with
\* overflow, have completed since.
C23_Witness ==
    \E i \in Calls : \E j \in Calls : \E k \in Calls :
        /\ i < j /\ i < k
        /\ TimeAdvancedReturn(i)
        /\ Memcmp6(log[j].before, Low48(log[j].millis)) > 0
        /\ Returned(j)
        /\ Memcmp6(log[k].before, Low48(log[k].millis)) > 0
        /\ log[k].kind = "overflow"

\* A call has failed, with sequence overflow or in the random source.
SomeCallFailed == \E i \in Calls : log[i].kind \in {"overflow", "random_error"}

\* C24: the mutex is held only by a thread inside generate(); the step
\* that ends a call, by the return, by the overflow throw or by the random
\* source's throw, leaves the mutex free; and once a call has failed, a
\* thread waiting for the mutex gets it.
C24_LockReleasedOnEveryExit ==
    /\ [](\A t \in Threads : mutex_ = t => pc[t] \notin {"idle", "wait"})
    /\ []((\A t \in Threads : pc[t] \in {"idle", "wait"}) => mutex_ = NoThread)
    /\ [][Len(log') > Len(log) => mutex_' = NoThread]_vars
    /\ \A t \in Threads : (SomeCallFailed /\ pc[t] = "wait") ~> (mutex_ = t)

\* C24 witness: one call has failed with overflow and one in the random
\* source, and a call made after both failures holds the mutex.
C24_Witness ==
    /\ \E i \in Calls : log[i].kind = "overflow"
    /\ \E k \in Calls : log[k].kind = "random_error"
    /\ \E t \in Threads : mutex_ = t /\ entry[t].ticket = Len(log) + 1

====
